---- MODULE Spec2Model ----
(***************************************************************************)
(* Booking ledger of the mobile mechanic platform: the tables of the       *)
(* migration 20260214133256_create_mechanic_platform_schema.sql with their *)
(* constraints, foreign-key actions and row level security policies, and   *)
(* the reads and writes the application issues against them: the bookings *)
(* screen and the booking form.                                            *)
(*                                                                         *)
(* Every statement is one atomic step (PostgreSQL runs each statement of   *)
(* the REST API in its own transaction; two UPDATEs of one row are         *)
(* serialised by the row lock and the second re-evaluates its quals and    *)
(* policies on the committed row).                                         *)
(***************************************************************************)
EXTENDS Integers, FiniteSets, Sequences, TLC

\* ---------------------------------------------------------------- bounds
MaxMechanics == 2
MaxBookings == 1
MaxReviews == 2

\* ------------------------------------------------------------ value sets
\* auth.users identities (uuids); every one of them has signed up.
Users == {"u1", "u2"}

\* SQL NULL in an id column (bookings.mechanic_id), and in a uuid or text
\* value (auth.uid() of a request without a session).
NULL == 0
NullText == "null"

MechanicIds == 1..MaxMechanics
BookingIds == 1..MaxBookings
ReviewIds == 1..MaxReviews

\* The service of the catalog the model follows: 'Oil Change', the first
\* row of the seed, base_price 49.99 (in cents).
ServiceIds == {1}
OilChangePrice == 4999

\* The prices the service takes: the seeded one and a revised one.
Prices == {OilChangePrice, OilChangePrice + 1000}

\* CONSTRAINT valid_status CHECK (status IN (...))
ValidStatus == {"pending", "accepted", "in_progress", "completed", "cancelled"}

\* Status values a client may send: the five of the constraint and one more.
StatusInputs == ValidStatus \cup {"archived"}

VARIABLES
  profiles,   \* set of profiles.id
  mechanics,  \* mechanics.id -> user_id, for the rows of the table
  services,   \* services.id -> base_price
  bookings,   \* bookings.id -> row, for the rows of the table
  bookingsScreen, \* per signed-in user, the state of BookingsScreen
  reviews,    \* reviews.id -> row, for the rows of the table
  createScreen  \* the state of the CreateBookingScreen of one device

vars == <<profiles, mechanics, services, bookings, bookingsScreen, reviews,
          createScreen>>

\* ------------------------------------------------------- three-valued SQL
\* x = y in SQL: NULL when either side is NULL.
SqlEq(x, y) == IF x = NullText \/ y = NullText THEN "null"
               ELSE IF x = y THEN "true" ELSE "false"

\* x IN (subquery) in SQL: NULL for a NULL x.
SqlIn(x, S) == IF x = NULL THEN "null"
               ELSE IF x \in S THEN "true" ELSE "false"

\* A request without a session: role anon, auth.uid() is NULL. A principal
\* is written as its auth.uid().
Anon == NullText

\* The policies written without TO authenticated: they apply to every role.
AnyRole(p) == TRUE

\* TO authenticated: the policies apply to signed-in users only.
Authenticated(p) == p \in Users

\* SELECT id FROM mechanics WHERE user_id = auth.uid()
OwnedMechanics(p) == {m \in DOMAIN mechanics : mechanics[m] = p}


\* ------------------------------------------------------------------ rows
BookingRow(c, m, s, st, price) ==
  [customer_id |-> c, mechanic_id |-> m, service_id |-> s,
   status |-> st, total_price |-> price]

\* Rows a client may send in an INSERT or as the new image of an UPDATE,
\* with status and total_price taken from the given sets.
BookingInputs(statuses, prices) ==
  {BookingRow(c, m, s, st, price) :
     c \in Users, m \in MechanicIds \cup {NULL}, s \in ServiceIds,
     st \in statuses, price \in prices}

\* ---------------------------------------------- bookings: SELECT policies
\* "Customers can view own bookings": USING (customer_id = auth.uid())
CustomersCanViewOwnBookings(p, row) == SqlEq(row.customer_id, p)

\* The subquery written without its WHERE clause.
MechanicsCanViewBookingsOfAnyMechanic(p, row) == SqlIn(row.mechanic_id, DOMAIN mechanics)

\* "Mechanics can view assigned bookings":
\* USING (mechanic_id IN (SELECT id FROM mechanics WHERE user_id = auth.uid()))
MechanicsCanViewAssignedBookings(p, row) == SqlIn(row.mechanic_id, OwnedMechanics(p))

\* Permissive policies of one command are OR-ed; a row passes when the
\* expression is true (not when it is NULL); no policy, no row.
BookingSelectUsing(p, row) ==
  /\ Authenticated(p)
  /\ \/ CustomersCanViewOwnBookings(p, row) = "true"
     \/ MechanicsCanViewAssignedBookings(p, row) = "true"

\* ----------------------------------------------- bookings: INSERT policy
\* "Customers can create bookings": WITH CHECK (customer_id = auth.uid())
CustomersCanCreateBookings(p, row) == SqlEq(row.customer_id, p)

BookingInsertCheck(p, row) ==
  /\ Authenticated(p)
  /\ CustomersCanCreateBookings(p, row) = "true"

\* --------------------------------------------- bookings: UPDATE policies
\* "Customers can update own bookings": USING and WITH CHECK are the same
\* expression, customer_id = auth.uid().
CustomersCanUpdateOwnBookings(p, row) == SqlEq(row.customer_id, p)

\* "Mechanics can update assigned bookings": USING and WITH CHECK are the
\* same expression, mechanic_id IN (SELECT id FROM mechanics WHERE ...).
MechanicsCanUpdateAssignedBookings(p, row) == SqlIn(row.mechanic_id, OwnedMechanics(p))

\* The mechanics' UPDATE policy left out: only customers update.
BookingUpdateUsingCustomersOnly(p, row) ==
  /\ Authenticated(p)
  /\ CustomersCanUpdateOwnBookings(p, row) = "true"

\* USING, on the row as it is stored.
BookingUpdateUsing(p, row) ==
  /\ Authenticated(p)
  /\ \/ CustomersCanUpdateOwnBookings(p, row) = "true"
     \/ MechanicsCanUpdateAssignedBookings(p, row) = "true"

\* The UPDATE policies written without WITH CHECK on the new image.
BookingUpdateCheckMissing(p, row) == Authenticated(p)

\* WITH CHECK, on the row as the statement would store it.
BookingUpdateCheck(p, row) ==
  /\ Authenticated(p)
  /\ \/ CustomersCanUpdateOwnBookings(p, row) = "true"
     \/ MechanicsCanUpdateAssignedBookings(p, row) = "true"

\* -------------------------------------------------- bookings: constraints
\* The table created without CONSTRAINT valid_status.
valid_status_missing(row) == TRUE

\* CONSTRAINT valid_status CHECK (status IN ('pending', ...))
valid_status(row) == row.status \in ValidStatus

\* customer_id ... NOT NULL, service_id ... NOT NULL (mechanic_id is
\* nullable).
BookingNotNull(row) == row.customer_id # NullText /\ row.service_id # NULL

\* customer_id REFERENCES profiles(id), mechanic_id REFERENCES mechanics(id)
\* (nullable), service_id REFERENCES services(id).
BookingForeignKeys(row) ==
  /\ row.customer_id \in profiles
  /\ row.mechanic_id = NULL \/ row.mechanic_id \in DOMAIN mechanics
  /\ row.service_id \in DOMAIN services

\* ------------------------------------------------------------- statements
\* The table with the row of key id stored or replaced.
WithRow(tbl, id, row) ==
  [k \in DOMAIN tbl \cup {id} |-> IF k = id THEN row ELSE tbl[k]]

\* The table without the rows whose keys are in gone.
WithoutRows(tbl, gone) == [k \in DOMAIN tbl \ gone |-> tbl[k]]

\* gen_random_uuid(): an id no row of the table has. The foreign keys
\* leave no reference to a deleted row (SET NULL, CASCADE), so an id that
\* was freed stands for a new one.
FreeBookingIds(tbl) == BookingIds \ DOMAIN tbl
NewBookingId(tbl) == CHOOSE b \in FreeBookingIds(tbl) : \A c \in FreeBookingIds(tbl) : b <= c

\* INSERT INTO bookings by p: the policy's WITH CHECK, then the NOT NULL
\* and CHECK constraints, then the foreign keys; a failure stores nothing.
InsertBookingResult(tbl, p, row) ==
  IF ~BookingInsertCheck(p, row) THEN [outcome |-> "rls_violation", table |-> tbl, rows |-> {}]
  ELSE IF ~BookingNotNull(row) THEN [outcome |-> "not_null_violation", table |-> tbl, rows |-> {}]
  ELSE IF ~valid_status(row) THEN [outcome |-> "check_violation", table |-> tbl, rows |-> {}]
  ELSE IF ~BookingForeignKeys(row) THEN [outcome |-> "fk_violation", table |-> tbl, rows |-> {}]
  ELSE [outcome |-> "ok",
        table |-> WithRow(tbl, NewBookingId(tbl), row),
        rows |-> {NewBookingId(tbl)}]

\* UPDATE bookings SET <new image> WHERE id = b, by p. Rows that fail USING
\* (of the UPDATE policies, and of the SELECT policies the WHERE clause
\* needs) are not seen: zero rows, no error. The new image must pass WITH
\* CHECK, the CHECK constraint and the foreign keys, or the statement fails.
UpdateBookingResult(tbl, p, b, new) ==
  IF b \notin DOMAIN tbl \/ ~BookingSelectUsing(p, tbl[b]) \/ ~BookingUpdateUsing(p, tbl[b])
    THEN [outcome |-> "no_rows", table |-> tbl, rows |-> {}]
  ELSE IF ~BookingUpdateCheck(p, new)
    THEN [outcome |-> "rls_violation", table |-> tbl, rows |-> {}]
  ELSE IF ~BookingNotNull(new)
    THEN [outcome |-> "not_null_violation", table |-> tbl, rows |-> {}]
  ELSE IF ~valid_status(new)
    THEN [outcome |-> "check_violation", table |-> tbl, rows |-> {}]
  ELSE IF ~BookingForeignKeys(new)
    THEN [outcome |-> "fk_violation", table |-> tbl, rows |-> {}]
  ELSE [outcome |-> "ok", table |-> WithRow(tbl, b, new), rows |-> {b}]

\* SELECT * FROM bookings, by p: the rows that pass USING.
SelectBookingsResult(tbl, p) ==
  {b \in DOMAIN tbl : BookingSelectUsing(p, tbl[b])}

\* loadBookings of the bookings screen:
\* from('bookings').select(...).eq('customer_id', profile?.id)
loadBookingsResult(tbl, p) ==
  {b \in SelectBookingsResult(tbl, p) : SqlEq(tbl[b].customer_id, p) = "true"}

\* ---------------------------------------------------------------- reviews
ReviewRow(b, c, m, rating) ==
  [booking_id |-> b, customer_id |-> c, mechanic_id |-> m, rating |-> rating]

\* Rows a client may send in an INSERT INTO reviews, with the rating taken
\* from the given set.
ReviewInputs(ratings) ==
  {ReviewRow(b, c, m, rating) :
     b \in BookingIds, c \in Users, m \in MechanicIds, rating \in ratings}

\* "Anyone can view reviews": TO authenticated USING (true)
ReviewSelectUsing(p, row) == Authenticated(p)

\* "Customers can create reviews for their bookings":
\* WITH CHECK (customer_id = auth.uid())
CustomersCanCreateReviews(p, row) == SqlEq(row.customer_id, p)

ReviewInsertCheck(p, row) ==
  /\ Authenticated(p)
  /\ CustomersCanCreateReviews(p, row) = "true"

\* The table created without CONSTRAINT valid_rating.
valid_rating_missing(row) == TRUE

\* rating integer NOT NULL, CONSTRAINT valid_rating CHECK (rating >= 1 AND rating <= 5)
valid_rating(row) == row.rating >= 1 /\ row.rating <= 5

\* booking_id REFERENCES bookings(id), customer_id REFERENCES profiles(id),
\* mechanic_id REFERENCES mechanics(id), all three NOT NULL.
ReviewForeignKeys(row) ==
  /\ row.booking_id \in DOMAIN bookings
  /\ row.customer_id \in profiles
  /\ row.mechanic_id \in DOMAIN mechanics

FreeReviewIds(tbl) == ReviewIds \ DOMAIN tbl
NewReviewId(tbl) == CHOOSE r \in FreeReviewIds(tbl) : \A q \in FreeReviewIds(tbl) : r <= q

\* INSERT INTO reviews by p: the policy's WITH CHECK, then the CHECK
\* constraint, then the foreign keys; a failure stores nothing. The table
\* has no UNIQUE constraint besides its primary key.
InsertReviewResult(tbl, p, row) ==
  IF ~ReviewInsertCheck(p, row) THEN [outcome |-> "rls_violation", table |-> tbl]
  ELSE IF ~valid_rating(row) THEN [outcome |-> "check_violation", table |-> tbl]
  ELSE IF ~ReviewForeignKeys(row) THEN [outcome |-> "fk_violation", table |-> tbl]
  ELSE [outcome |-> "ok", table |-> WithRow(tbl, NewReviewId(tbl), row)]

\* SELECT * FROM reviews, by p.
SelectReviewsResult(tbl, p) == {r \in DOMAIN tbl : ReviewSelectUsing(p, tbl[r])}

\* The reviews table with customer_id alone ON DELETE CASCADE.
ReviewsOfCustomersDeleted(tbl, goneBookings, goneProfiles, goneMechanics) ==
  WithoutRows(tbl, {r \in DOMAIN tbl : tbl[r].customer_id \in goneProfiles})

\* The reviews left when the given bookings, profiles and mechanics rows are
\* deleted: booking_id, customer_id and mechanic_id are ON DELETE CASCADE.
ReviewsCascade(tbl, goneBookings, goneProfiles, goneMechanics) ==
  WithoutRows(tbl, {r \in DOMAIN tbl :
                      \/ tbl[r].booking_id \in goneBookings
                      \/ tbl[r].customer_id \in goneProfiles
                      \/ tbl[r].mechanic_id \in goneMechanics})

\* ---------------------------------------------------------------- actions
\* A statement that fails or matches no row stores nothing: it is a step
\* that leaves every variable as it was, and what it returns is the outcome
\* of the Result operator above.

\* handleSubmit's supabase.from('bookings').insert(row), and any other
\* INSERT a signed-in client sends.
InsertBooking(p, row) ==
  /\ FreeBookingIds(bookings) # {}
  /\ LET r == InsertBookingResult(bookings, p, row) IN
       /\ r.outcome = "ok"
       /\ bookings' = r.table
  /\ UNCHANGED <<profiles, mechanics, services, bookingsScreen, reviews, createScreen>>

\* UPDATE bookings SET ... WHERE id = b sent by a signed-in client.
UpdateBooking(p, b, new) ==
  /\ LET r == UpdateBookingResult(bookings, p, b, new) IN
       /\ r.outcome = "ok"
       /\ bookings' = r.table
  /\ UNCHANGED <<profiles, mechanics, services, bookingsScreen, reviews, createScreen>>

\* loadBookings: if (data) setBookings(data); setLoading(false)
loadBookings(p) ==
  /\ bookingsScreen' = [bookingsScreen EXCEPT
        ![p] = [loading |-> FALSE, bookings |-> loadBookingsResult(bookings, p)]]
  /\ UNCHANGED <<profiles, mechanics, services, bookings, reviews, createScreen>>

\* mechanics: "Mechanics can insert own profile" WITH CHECK (user_id = auth.uid()),
\* user_id REFERENCES profiles(id).
FreeMechanicIds == MechanicIds \ DOMAIN mechanics
NewMechanicId == CHOOSE m \in FreeMechanicIds : \A n \in FreeMechanicIds : m <= n

\* The policy written WITH CHECK (true): any signed-in user inserts any row.
MechanicInsertCheckMissing(p, user_id) == Authenticated(p)

MechanicInsertCheck(p, user_id) == Authenticated(p) /\ SqlEq(user_id, p) = "true"

InsertMechanicResult(p, user_id) ==
  IF ~MechanicInsertCheck(p, user_id) THEN "rls_violation"
  ELSE IF user_id \notin profiles THEN "fk_violation"
  ELSE "ok"

InsertMechanic(p, user_id) ==
  /\ FreeMechanicIds # {}
  /\ LET o == InsertMechanicResult(p, user_id) IN
       /\ o = "ok"
       /\ mechanics' = WithRow(mechanics, NewMechanicId, user_id)
  /\ UNCHANGED <<profiles, services, bookings, bookingsScreen, reviews, createScreen>>

\* The foreign key written ON DELETE CASCADE: the bookings of the deleted
\* mechanics go with them.
MechanicDeletedCascading(tbl, gone) ==
  WithoutRows(tbl, {b \in DOMAIN tbl : tbl[b].mechanic_id \in gone})

\* "Anyone can view mechanics": TO authenticated USING (true)
MechanicSelectUsing(p, m) == Authenticated(p)

\* "Mechanics can update own profile": USING and WITH CHECK are the same
\* expression, user_id = auth.uid().
MechanicUpdateUsing(p, user_id) == Authenticated(p) /\ SqlEq(user_id, p) = "true"

\* UPDATE mechanics SET user_id = new WHERE id = m, by p.
UpdateMechanicResult(p, m, new) ==
  IF m \notin DOMAIN mechanics \/ ~MechanicSelectUsing(p, m)
       \/ ~MechanicUpdateUsing(p, mechanics[m])
    THEN "no_rows"
  ELSE IF ~MechanicUpdateUsing(p, new) THEN "rls_violation"
  ELSE IF new \notin profiles THEN "fk_violation"
  ELSE "ok"

\* UPDATE mechanics SET user_id = new WHERE id = m sent by a signed-in
\* client.
UpdateMechanic(p, m, new) ==
  /\ UpdateMechanicResult(p, m, new) = "ok"
  /\ mechanics' = WithRow(mechanics, m, new)
  /\ UNCHANGED <<profiles, services, bookings, bookingsScreen, reviews, createScreen>>

\* profiles: "Users can view own profile" USING (auth.uid() = id), "Users
\* can update own profile" USING and WITH CHECK (auth.uid() = id), "Users
\* can insert own profile" WITH CHECK (auth.uid() = id).
ProfilePolicy(p, id) == Authenticated(p) /\ SqlEq(p, id) = "true"

\* SELECT * FROM profiles, by p.
SelectProfilesResult(p) == {id \in profiles : ProfilePolicy(p, id)}

\* INSERT INTO profiles (id, ...) by p; id is the primary key.
InsertProfileResult(p, id) ==
  IF ~ProfilePolicy(p, id) THEN "rls_violation"
  ELSE IF id \in profiles THEN "unique_violation"
  ELSE "ok"

\* UPDATE profiles SET ... WHERE id = id, by p, the id left as it is.
UpdateProfileResult(p, id) ==
  IF id \notin profiles \/ ~ProfilePolicy(p, id) THEN "no_rows" ELSE "ok"

\* services has row level security enabled and one policy, FOR SELECT: an
\* INSERT is refused, an UPDATE sees no row.
InsertServiceResult(p) == "rls_violation"
UpdateServiceResult(p, s) == "no_rows"

\* bookings.mechanic_id REFERENCES mechanics(id) ON DELETE SET NULL
MechanicDeleted(tbl, gone) ==
  [b \in DOMAIN tbl |->
     IF tbl[b].mechanic_id \in gone
       THEN [tbl[b] EXCEPT !.mechanic_id = NULL]
       ELSE tbl[b]]

\* DELETE FROM mechanics WHERE id = m. No policy lets a signed-in user
\* delete; the row goes when a statement that bypasses the policies
\* removes it. The reviews of the mechanic go with it (reviews.mechanic_id
\* ... ON DELETE CASCADE).
DeleteMechanic(m) ==
  /\ m \in DOMAIN mechanics
  /\ mechanics' = WithoutRows(mechanics, {m})
  /\ bookings' = MechanicDeleted(bookings, {m})
  /\ reviews' = ReviewsCascade(reviews, {}, {}, {m})
  /\ UNCHANGED <<profiles, services, bookingsScreen, createScreen>>

\* bookings.customer_id REFERENCES profiles(id) ON DELETE CASCADE
CustomerDeleted(tbl, u) ==
  WithoutRows(tbl, {b \in DOMAIN tbl : tbl[b].customer_id = u})

\* The bookings of customer u.
BookingsOf(tbl, u) == {b \in DOMAIN tbl : tbl[b].customer_id = u}

\* profiles.id REFERENCES auth.users(id) ON DELETE CASCADE: the account is
\* removed, and with it the profile, its mechanics rows (user_id ... ON
\* DELETE CASCADE), its bookings, and the reviews that refer to the
\* profile, to one of those mechanics rows or to one of those bookings.
DeleteProfile(u) ==
  /\ u \in profiles
  /\ profiles' = profiles \ {u}
  /\ mechanics' = WithoutRows(mechanics, OwnedMechanics(u))
  /\ bookings' = CustomerDeleted(MechanicDeleted(bookings, OwnedMechanics(u)), u)
  /\ reviews' = ReviewsCascade(reviews, BookingsOf(bookings, u), {u}, OwnedMechanics(u))
  /\ UNCHANGED <<services, bookingsScreen, createScreen>>

\* ------------------------------------------------- CreateBookingScreen
\* Text of an input: empty, or something typed.
Texts == {"", "typed"}
FormFields == {"vehicleMake", "vehicleModel", "vehicleYear", "locationAddress"}

\* setError('Please fill in all required fields and select a mechanic')
FillAllFields == "Please fill in all required fields and select a mechanic"

\* serviceId of the route: a service of the catalog, or undefined.
ServiceParams == ServiceIds \cup {NULL}

\* The component as useState leaves it when the route is opened by user u
\* with parameter serviceId = sid. service holds the base_price of the
\* loaded Service, NULL for service = null; request is the row of the
\* insert handleSubmit sent last, inflight the number of inserts sent and
\* not yet answered.
MountedScreen(u, sid) ==
  [profile |-> u, serviceId |-> sid, service |-> NULL, mechanics |-> {},
   selectedMechanic |-> NULL, vehicleMake |-> "", vehicleModel |-> "",
   vehicleYear |-> "", locationAddress |-> "", loading |-> TRUE,
   submitting |-> FALSE, error |-> "",
   request |-> BookingRow(NullText, NULL, NULL, "pending", 0), inflight |-> 0]

\* No CreateBookingScreen on the navigation stack.
NoScreen == MountedScreen(NullText, NULL)

\* router.push('/booking/create?serviceId=...') by signed-in user u.
openCreateBooking(u, sid) ==
  /\ createScreen = NoScreen
  /\ u \in profiles
  /\ createScreen' = MountedScreen(u, sid)
  /\ UNCHANGED <<profiles, mechanics, services, bookings, bookingsScreen, reviews>>

\* from('services').select('*').eq('id', serviceId).maybeSingle() by p:
\* "Anyone can view services" TO authenticated USING (true).
SelectServiceResult(p, sid) ==
  IF Authenticated(p) /\ sid \in DOMAIN services THEN services[sid] ELSE NULL

\* from('mechanics').select('*').eq('is_available', true) by p: "Anyone can
\* view mechanics" TO authenticated USING (true); is_available is true by
\* default and nothing in the application clears it.
SelectMechanicsResult(p) == IF Authenticated(p) THEN DOMAIN mechanics ELSE {}

\* loadData, run by useEffect when the screen is mounted:
\* if (serviceResult.data) setService(...); if (mechanicsResult.data)
\* setMechanics(...); setLoading(false)
loadData ==
  /\ createScreen # NoScreen
  /\ createScreen.loading
  /\ LET data == SelectServiceResult(createScreen.profile, createScreen.serviceId) IN
       createScreen' = [createScreen EXCEPT
          !.service = IF data # NULL THEN data ELSE @,
          !.mechanics = SelectMechanicsResult(createScreen.profile),
          !.loading = FALSE]
  /\ UNCHANGED <<profiles, mechanics, services, bookings, bookingsScreen, reviews>>

\* onChangeText={setVehicleMake} and the three like it, called when the
\* text of the input changes; the form is rendered once loading is false.
onChangeText(field, text) ==
  /\ createScreen # NoScreen
  /\ ~createScreen.loading
  /\ createScreen[field] # text
  /\ createScreen' = [createScreen EXCEPT ![field] = text]
  /\ UNCHANGED <<profiles, mechanics, services, bookings, bookingsScreen, reviews>>

\* onPress={() => setSelectedMechanic(mechanic.id)} on a card of the list.
setSelectedMechanic(m) ==
  /\ createScreen # NoScreen
  /\ ~createScreen.loading
  /\ m \in createScreen.mechanics
  /\ createScreen' = [createScreen EXCEPT !.selectedMechanic = m]
  /\ UNCHANGED <<profiles, mechanics, services, bookings, bookingsScreen, reviews>>

\* service?.base_price || 0
BasePriceOrZero(service) == IF service = NULL THEN 0 ELSE service

\* if (!vehicleMake || !vehicleModel || !vehicleYear || !locationAddress
\*     || !selectedMechanic)
FormIncomplete(scr) ==
  \/ scr.vehicleMake = ""
  \/ scr.vehicleModel = ""
  \/ scr.vehicleYear = ""
  \/ scr.locationAddress = ""
  \/ scr.selectedMechanic = NULL

\* The row of handleSubmit's insert, from the state of the render.
SubmittedRow(scr) ==
  BookingRow(scr.profile, scr.selectedMechanic, scr.serviceId, "pending",
             BasePriceOrZero(scr.service))

\* The state handleSubmit leaves at its await: the validation error, or
\* submitting with the insert sent.
Submitted(scr) ==
  IF FormIncomplete(scr)
    THEN [scr EXCEPT !.error = FillAllFields]
    ELSE [scr EXCEPT !.submitting = TRUE, !.error = "",
                     !.request = SubmittedRow(scr), !.inflight = @ + 1]

\* The button without disabled={submitting}: it can be pressed while an
\* insert is awaited.
handleSubmitWhileSubmitting ==
  /\ createScreen # NoScreen
  /\ ~createScreen.loading
  /\ createScreen' = Submitted(createScreen)
  /\ UNCHANGED <<profiles, mechanics, services, bookings, bookingsScreen, reviews>>

\* handleSubmit up to its await. The button is disabled={submitting}, and
\* the render that follows setSubmitting(true) is committed before the next
\* press is handled.
handleSubmit ==
  /\ createScreen # NoScreen
  /\ ~createScreen.loading
  /\ ~createScreen.submitting
  /\ createScreen' = Submitted(createScreen)
  /\ UNCHANGED <<profiles, mechanics, services, bookings, bookingsScreen, reviews>>

\* The insert runs and handleSubmit resumes: setSubmitting(false), then
\* setError(error.message), or router.replace('/(tabs)/bookings'), which
\* takes the screen off the stack.
handleSubmitResumes ==
  /\ createScreen.inflight > 0
  /\ FreeBookingIds(bookings) # {}
  /\ LET r == InsertBookingResult(bookings, createScreen.profile, createScreen.request) IN
       /\ bookings' = r.table
       /\ createScreen' =
            IF r.outcome = "ok"
              THEN NoScreen
              ELSE [createScreen EXCEPT !.submitting = FALSE, !.error = r.outcome,
                                        !.inflight = @ - 1]
  /\ UNCHANGED <<profiles, mechanics, services, bookingsScreen, reviews>>

\* A policy that lets customers delete their bookings.
CustomersCanDeleteOwnBookings(p, row) ==
  Authenticated(p) /\ SqlEq(row.customer_id, p) = "true"

\* bookings has row level security enabled and no policy FOR DELETE: no
\* row passes.
BookingDeleteUsing(p, row) == FALSE

\* DELETE FROM bookings WHERE id = b, by p: rows that fail USING are not
\* seen, zero rows and no error.
DeleteBookingResult(tbl, p, b) ==
  IF b \notin DOMAIN tbl \/ ~BookingSelectUsing(p, tbl[b]) \/ ~BookingDeleteUsing(p, tbl[b])
    THEN [outcome |-> "no_rows", table |-> tbl, rows |-> {}]
    ELSE [outcome |-> "ok", table |-> WithoutRows(tbl, {b}), rows |-> {b}]

\* The DELETE sent by a signed-in client; the reviews of a deleted booking
\* go with it (reviews.booking_id ... ON DELETE CASCADE).
DeleteBooking(p, b) ==
  /\ b \in DOMAIN bookings
  /\ LET r == DeleteBookingResult(bookings, p, b) IN
       /\ bookings' = r.table
       /\ reviews' = ReviewsCascade(reviews, r.rows, {}, {})
  /\ UNCHANGED <<profiles, mechanics, services, bookingsScreen, createScreen>>

\* INSERT INTO reviews sent by a signed-in client.
InsertReview(p, row) ==
  /\ FreeReviewIds(reviews) # {}
  /\ LET r == InsertReviewResult(reviews, p, row) IN
       /\ r.outcome = "ok"
       /\ reviews' = r.table
  /\ UNCHANGED <<profiles, mechanics, services, bookings, bookingsScreen, createScreen>>

\* A catalog update that reprices the bookings of the service.
SetBasePriceRepricing(s, price) ==
  /\ services[s] # price
  /\ services' = [services EXCEPT ![s] = price]
  /\ bookings' = [b \in DOMAIN bookings |->
                    IF bookings[b].service_id = s
                      THEN [bookings[b] EXCEPT !.total_price = price]
                      ELSE bookings[b]]
  /\ UNCHANGED <<profiles, mechanics, bookingsScreen, reviews, createScreen>>

\* UPDATE services SET base_price = price WHERE id = s. services has a
\* SELECT policy only; the catalog changes by statements that bypass the
\* policies. bookings.total_price is a plain column: nothing follows.
SetBasePrice(s, price) ==
  /\ services[s] # price
  /\ services' = [services EXCEPT ![s] = price]
  /\ UNCHANGED <<profiles, mechanics, bookings, bookingsScreen, reviews, createScreen>>

\* ------------------------------------------------------------------ specs
\* The state after the migration ran and the users signed up: the seeded
\* catalog, one profile per user, no mechanics and no bookings; every
\* BookingsScreen as useState leaves it ([] and loading).
Init ==
  /\ profiles = Users
  /\ mechanics = <<>>
  /\ services = [s \in ServiceIds |-> OilChangePrice]
  /\ bookings = <<>>
  /\ bookingsScreen = [u \in Users |-> [loading |-> TRUE, bookings |-> {}]]
  /\ reviews = <<>>
  /\ createScreen = NoScreen

\* Statements on bookings and mechanics under the policies, the catalog
\* left as seeded: clients send any status and the catalog price.
PolicyInputs == BookingInputs(StatusInputs, {OilChangePrice})

Next ==
  \/ \E p \in Users, row \in PolicyInputs : InsertBooking(p, row)
  \/ \E p \in Users, b \in BookingIds, new \in PolicyInputs : UpdateBooking(p, b, new)
  \/ \E p \in Users, u \in Users : InsertMechanic(p, u)
  \/ \E m \in MechanicIds : DeleteMechanic(m)

Spec == Init /\ [][Next]_vars

\* The same statements, and the bookings screens reading the ledger.
NextRead ==
  \/ Next
  \/ \E p \in Users : loadBookings(p)

SpecRead == Init /\ [][NextRead]_vars

\* The catalog changing under the ledger: bookings are written pending, as
\* the booking form creates them, at the price the catalog shows.
CatalogInputs == BookingInputs({"pending"}, {services[s] : s \in ServiceIds})

NextCatalog ==
  \/ \E p \in Users, row \in CatalogInputs : InsertBooking(p, row)
  \/ \E p \in Users, b \in BookingIds, new \in CatalogInputs : UpdateBooking(p, b, new)
  \/ \E p \in Users, u \in Users : InsertMechanic(p, u)
  \/ \E m \in MechanicIds : DeleteMechanic(m)
  \/ \E s \in ServiceIds, price \in Prices : SetBasePrice(s, price)

SpecCatalog == Init /\ [][NextCatalog]_vars

\* The booking form of one device, used by either user, while mechanics
\* register, each user once, and the catalog is repriced.
NextCreate ==
  \/ \E u \in Users, sid \in ServiceParams : openCreateBooking(u, sid)
  \/ loadData
  \/ \E field \in FormFields, text \in Texts : onChangeText(field, text)
  \/ \E m \in MechanicIds : setSelectedMechanic(m)
  \/ handleSubmit
  \/ handleSubmitResumes
  \/ \E u \in Users : OwnedMechanics(u) = {} /\ InsertMechanic(u, u)
  \/ \E s \in ServiceIds, price \in Prices : SetBasePrice(s, price)

SpecCreate == Init /\ [][NextCreate]_vars

\* Rows and accounts coming and going: bookings are written as the booking
\* form writes them, with a mechanic selected, and move to completed or to
\* cancelled;
\* mechanics rows and accounts are deleted.
LifecycleInputs ==
  {row \in BookingInputs({"pending", "completed", "cancelled"}, {OilChangePrice}) :
     row.mechanic_id # NULL}

NextLifecycle ==
  \/ \E p \in Users, row \in LifecycleInputs : InsertBooking(p, row)
  \/ \E p \in Users, b \in BookingIds, new \in LifecycleInputs : UpdateBooking(p, b, new)
  \/ \E p \in Users, b \in BookingIds : DeleteBooking(p, b)
  \/ \E p \in Users, u \in Users : InsertMechanic(p, u)
  \/ \E p \in Users, m \in MechanicIds, new \in Users : UpdateMechanic(p, m, new)
  \/ \E m \in MechanicIds : DeleteMechanic(m)
  \/ \E u \in Users : DeleteProfile(u)

SpecLifecycle == Init /\ [][NextLifecycle]_vars

\* Ratings a client may send: the ends of the range and their neighbours.
RatingInputs == {0, 1, 5, 6}

\* Reviews written on bookings that are pending or completed and have a
\* mechanic selected, as the booking form writes them, while mechanics
\* register and accounts are deleted. A review names the mechanic of its
\* booking.
ReviewedInputs ==
  {row \in BookingInputs({"pending", "completed"}, {OilChangePrice}) :
     row.mechanic_id # NULL}

ReviewsOfBookings ==
  {row \in ReviewInputs(RatingInputs) :
     /\ row.booking_id \in DOMAIN bookings
     /\ row.mechanic_id = bookings[row.booking_id].mechanic_id}

NextReviews ==
  \/ \E p \in Users, row \in ReviewedInputs : InsertBooking(p, row)
  \/ \E u \in Users : InsertMechanic(u, u)
  \/ \E p \in Users, row \in ReviewsOfBookings : InsertReview(p, row)
  \/ \E u \in Users : DeleteProfile(u)

SpecReviews == Init /\ [][NextReviews]_vars


\* ------------------------------------------------------------- properties
\* The ownership predicate of the specification: the row's customer is p,
\* or the row's mechanic_id refers to a mechanic row owned by p.
OwnsBooking(p, row) ==
  \/ row.customer_id = p
  \/ /\ row.mechanic_id # NULL
     /\ row.mechanic_id \in DOMAIN mechanics
     /\ mechanics[row.mechanic_id] = p

\* The acceptance of a booking by mechanic m: mechanic_id and status set
\* in one UPDATE.
Accepted(row, m) == [row EXCEPT !.mechanic_id = m, !.status = "accepted"]

\* C1: when two different mechanics attempt to accept the same pending,
\* unassigned booking, in either order, at most one attempt succeeds; the
\* other changes no row, and the winner's mechanic_id stays.
C1_AtMostOneAcceptWins ==
  \A b \in DOMAIN bookings : \A m1, m2 \in DOMAIN mechanics :
    (bookings[b].status = "pending" /\ bookings[b].mechanic_id = NULL /\ m1 # m2) =>
      LET first == UpdateBookingResult(bookings, mechanics[m1], b, Accepted(bookings[b], m1))
          second == UpdateBookingResult(first.table, mechanics[m2], b,
                                        Accepted(first.table[b], m2))
      IN first.outcome = "ok" =>
           /\ second.outcome # "ok"
           /\ second.table = first.table
           /\ second.table[b].mechanic_id = m1

\* C2: the list a bookings screen loads for principal p is exactly the
\* bookings p owns, as customer or through a mechanic row of p.
C2_ListIsOwnedBookings ==
  [][\A p \in Users :
       bookingsScreen'[p] # bookingsScreen[p] =>
         bookingsScreen'[p].bookings =
           {b \in DOMAIN bookings : OwnsBooking(p, bookings[b])}]_vars

\* C3: principal A may read a booking only as its customer or as the owner
\* of the mechanic row it refers to; a booking of B without a mechanic is
\* read by B alone.
C3_ReadOnlyOwnBookings ==
  \A A \in Users : \A b \in DOMAIN bookings :
    /\ b \in SelectBookingsResult(bookings, A) => OwnsBooking(A, bookings[b])
    /\ (bookings[b].customer_id # A /\ bookings[b].mechanic_id = NULL)
         => b \notin SelectBookingsResult(bookings, A)

\* A booking of B that lost its mechanic, while another user A owns a
\* mechanic row and reads nothing.
C3_Witness ==
  \E A \in Users : \E b \in DOMAIN bookings :
    /\ bookings[b].customer_id # A
    /\ bookings[b].mechanic_id = NULL
    /\ OwnedMechanics(A) # {}
    /\ SelectBookingsResult(bookings, A) = {}

\* C4: every stored booking has one of the five statuses; an INSERT or
\* UPDATE with another status is rejected and leaves the table as it was.
C4_StatusDomain ==
  /\ \A b \in DOMAIN bookings :
       bookings[b].status \in {"pending", "accepted", "in_progress", "completed", "cancelled"}
  /\ \A p \in Users : \A row \in BookingInputs({"archived"}, {OilChangePrice}) :
       /\ FreeBookingIds(bookings) # {} =>
            /\ InsertBookingResult(bookings, p, row).outcome # "ok"
            /\ InsertBookingResult(bookings, p, row).table = bookings
       /\ \A b \in BookingIds :
            /\ UpdateBookingResult(bookings, p, b, row).outcome # "ok"
            /\ UpdateBookingResult(bookings, p, b, row).table = bookings

\* A booking moved off pending, whose customer's UPDATE to a sixth status
\* fails on the constraint.
C4_Witness ==
  \E b \in DOMAIN bookings :
    /\ bookings[b].status = "completed"
    /\ UpdateBookingResult(bookings, bookings[b].customer_id, b,
                           [bookings[b] EXCEPT !.status = "archived"]).outcome
         = "check_violation"

\* The edges of the booking state machine.
Edges ==
  {<<"pending", "accepted">>, <<"accepted", "in_progress">>,
   <<"in_progress", "completed">>, <<"pending", "cancelled">>,
   <<"accepted", "cancelled">>}

\* C5: in every step, the status of a booking stays or moves along an edge
\* of the state machine; completed and cancelled are never left.
C5_StatusFollowsEdges ==
  [][\A b \in DOMAIN bookings \cap DOMAIN bookings' :
       \/ bookings'[b].status = bookings[b].status
       \/ <<bookings[b].status, bookings'[b].status>> \in Edges]_vars

\* C6: whoever owns a booking can move its status from any of the five
\* values to any of the five in one UPDATE.
C6_AnyStatusInOneStep ==
  \A b \in DOMAIN bookings : \A p \in Users : \A t \in ValidStatus :
    OwnsBooking(p, bookings[b]) =>
      LET r == UpdateBookingResult(bookings, p, b, [bookings[b] EXCEPT !.status = t])
      IN r.outcome = "ok" /\ r.table[b].status = t

\* A completed booking whose mechanic belongs to another user than its
\* customer: two writers, and pending -> completed open to both.
C6_Witness ==
  \E b \in DOMAIN bookings :
    /\ bookings[b].status = "completed"
    /\ bookings[b].mechanic_id # NULL
    /\ mechanics[bookings[b].mechanic_id] # bookings[b].customer_id
    /\ UpdateBookingResult(bookings, mechanics[bookings[b].mechanic_id], b,
                           [bookings[b] EXCEPT !.status = "pending"]).outcome = "ok"

\* C7: a step that moves a booking from pending to accepted leaves it with
\* a mechanic_id that refers to a mechanic row.
C7_AcceptSetsMechanic ==
  [][\A b \in DOMAIN bookings \cap DOMAIN bookings' :
       (bookings[b].status = "pending" /\ bookings'[b].status = "accepted") =>
         /\ bookings'[b].mechanic_id # NULL
         /\ bookings'[b].mechanic_id \in DOMAIN mechanics']_vars

\* C8: an INSERT with a customer_id other than the principal stores
\* nothing, and no step changes the customer_id of a stored booking.
C8_CustomerIsCreator ==
  /\ [](\A p \in Users : \A row \in PolicyInputs :
          (row.customer_id # p /\ FreeBookingIds(bookings) # {}) =>
            InsertBookingResult(bookings, p, row).table = bookings)
  /\ [][\A b \in DOMAIN bookings \cap DOMAIN bookings' :
          bookings'[b].customer_id = bookings[b].customer_id]_vars

\* The policies let the UPDATE be applied: its row was visible and its new
\* image passed WITH CHECK.
PermittedByPolicy(outcome) == outcome \notin {"no_rows", "rls_violation"}

\* C9: the policies permit an UPDATE of a booking by p exactly when p owns
\* the stored row and owns the new image; a denied UPDATE changes nothing.
C9_UpdateNeedsOwnershipBeforeAndAfter ==
  \A p \in Users : \A b \in DOMAIN bookings : \A new \in PolicyInputs :
    LET r == UpdateBookingResult(bookings, p, b, new) IN
      /\ PermittedByPolicy(r.outcome) <=>
           (OwnsBooking(p, bookings[b]) /\ OwnsBooking(p, new))
      /\ ~PermittedByPolicy(r.outcome) => r.table = bookings

\* A row its customer may rewrite, but not hand to another customer: the
\* stored row passes, the new image does not.
C9_Witness ==
  \E b \in DOMAIN bookings : \E new \in PolicyInputs :
    LET p == bookings[b].customer_id IN
      /\ bookings[b].mechanic_id # NULL
      /\ mechanics[bookings[b].mechanic_id] # p
      /\ new.customer_id # p
      /\ ~OwnsBooking(p, new)
      /\ UpdateBookingResult(bookings, p, b, new).outcome = "rls_violation"
      /\ UpdateBookingResult(bookings, p, b,
                             [bookings[b] EXCEPT !.status = "cancelled"]).outcome = "ok"

\* C10: a step that changes a base_price of the catalog leaves every
\* booking, and its total_price, as it was.
C10_PriceChangeLeavesBookings ==
  [][services' # services =>
       \A b \in DOMAIN bookings :
         /\ b \in DOMAIN bookings'
         /\ bookings'[b].total_price = bookings[b].total_price]_vars

\* A booking that kept the price it was made at after its service was
\* repriced.
C10_Witness ==
  \E b \in DOMAIN bookings :
    bookings[b].total_price # services[bookings[b].service_id]

\* C11: a step that stores a new booking stores it pending, with the
\* total_price equal to the base_price its service has in the catalog at
\* that step.
C11_CreatedPendingAtCatalogPrice ==
  [][\A b \in DOMAIN bookings' \ DOMAIN bookings :
       /\ bookings'[b].status = "pending"
       /\ bookings'[b].total_price = services[bookings'[b].service_id]]_vars

\* C12: a step that deletes mechanics rows and no profile removes no
\* booking; the bookings that referred to a deleted row keep every field
\* but mechanic_id, which becomes null, and the other bookings stay as
\* they were.
C12_MechanicDeletionKeepsBookings ==
  [][LET gone == DOMAIN mechanics \ DOMAIN mechanics' IN
       (gone # {} /\ profiles' = profiles) =>
         /\ DOMAIN bookings' = DOMAIN bookings
         /\ \A b \in DOMAIN bookings :
              bookings'[b] =
                IF bookings[b].mechanic_id \in gone
                  THEN [customer_id |-> bookings[b].customer_id,
                        mechanic_id |-> NULL,
                        service_id |-> bookings[b].service_id,
                        status |-> bookings[b].status,
                        total_price |-> bookings[b].total_price]
                  ELSE bookings[b]]_vars

\* A completed booking without mechanic while every account still exists:
\* it was written with a mechanic, whose row was deleted since.
C12_Witness ==
  /\ profiles = Users
  /\ \E b \in DOMAIN bookings :
       /\ bookings[b].mechanic_id = NULL
       /\ bookings[b].status = "completed"

\* C14 as stated: no step removes a booking.
C14_BookingNeverRemoved ==
  [][DOMAIN bookings \subseteq DOMAIN bookings']_vars

\* C14: a booking is removed only by the deletion of its customer's
\* profile; no statement of a signed-in user and no deletion of a mechanic
\* removes one, whatever its status.
C14_BookingRemovedOnlyWithCustomer ==
  [][\A b \in DOMAIN bookings :
       b \in DOMAIN bookings' \/ bookings[b].customer_id \notin profiles']_vars

\* A completed booking of a customer whose DELETE of it matches no row,
\* after the mechanic it was assigned to was deleted.
C14_Witness ==
  \E b \in DOMAIN bookings :
    /\ bookings[b].status = "completed"
    /\ bookings[b].mechanic_id = NULL
    /\ DeleteBookingResult(bookings, bookings[b].customer_id, b).outcome = "no_rows"

\* What the deletion of profile P leaves of bookings and mechanics, as C13
\* states it: P's bookings and mechanics rows are the ones deleted, no row
\* left refers to P, and the bookings of other customers that were
\* assigned to a mechanics row of P survive with mechanic_id null.
ProfileDeletionOnBookingsAndMechanics(P) ==
  /\ DOMAIN bookings \ DOMAIN bookings' = {b \in DOMAIN bookings : bookings[b].customer_id = P}
  /\ DOMAIN mechanics \ DOMAIN mechanics' = {m \in DOMAIN mechanics : mechanics[m] = P}
  /\ DOMAIN bookings' \subseteq DOMAIN bookings
  /\ DOMAIN mechanics' \subseteq DOMAIN mechanics
  /\ DOMAIN reviews' \subseteq DOMAIN reviews
  /\ \A b \in DOMAIN bookings' : bookings'[b].customer_id # P
  /\ \A m \in DOMAIN mechanics' : mechanics'[m] # P
  /\ \A r \in DOMAIN reviews' : reviews'[r].customer_id # P
  /\ \A b \in DOMAIN bookings :
       (bookings[b].customer_id # P /\ bookings[b].mechanic_id \in OwnedMechanics(P)) =>
         /\ b \in DOMAIN bookings'
         /\ bookings'[b] = [bookings[b] EXCEPT !.mechanic_id = NULL]

\* C13 as stated: the reviews a profile deletion removes are exactly the
\* reviews whose customer_id is the profile.
C13_ProfileDeletionExactly ==
  [][\A P \in profiles \ profiles' :
       /\ ProfileDeletionOnBookingsAndMechanics(P)
       /\ DOMAIN reviews \ DOMAIN reviews' =
            {r \in DOMAIN reviews : reviews[r].customer_id = P}]_vars

\* C13: deleting profile P deletes P's bookings and P's mechanics rows, and
\* the reviews that refer to P, to one of those bookings or to one of those
\* mechanics rows, and nothing else; no row left refers to P, and bookings
\* of other customers assigned to a mechanics row of P survive with
\* mechanic_id null.
C13_ProfileDeletionCascades ==
  [][\A P \in profiles \ profiles' :
       /\ ProfileDeletionOnBookingsAndMechanics(P)
       /\ DOMAIN reviews \ DOMAIN reviews' =
            {r \in DOMAIN reviews :
               \/ reviews[r].customer_id = P
               \/ reviews[r].booking_id \in DOMAIN bookings
                    /\ bookings[reviews[r].booking_id].customer_id = P
               \/ reviews[r].mechanic_id \in DOMAIN mechanics
                    /\ mechanics[reviews[r].mechanic_id] = P}
       /\ \A r \in DOMAIN reviews' :
            /\ reviews'[r] = reviews[r]
            /\ reviews'[r].booking_id \in DOMAIN bookings'
            /\ reviews'[r].mechanic_id \in DOMAIN mechanics']_vars

\* One account left, whose completed booking lost its mechanic with the
\* other account, and with it the reviews written about that mechanic.
C13_Witness ==
  \E Q \in Users :
    /\ profiles = {Q}
    /\ DOMAIN reviews = {}
    /\ \E b \in DOMAIN bookings :
         /\ bookings[b].customer_id = Q
         /\ bookings[b].mechanic_id = NULL
         /\ bookings[b].status = "completed"

\* C16: every stored review has a rating from 1 to 5, and an INSERT with a
\* rating outside that range is rejected and leaves the table as it was.
C16_RatingInRange ==
  /\ \A r \in DOMAIN reviews : reviews[r].rating >= 1 /\ reviews[r].rating <= 5
  /\ FreeReviewIds(reviews) # {} =>
       \A p \in Users : \A row \in ReviewInputs({0, 6}) :
         LET r == InsertReviewResult(reviews, p, row) IN
           r.outcome # "ok" /\ r.table = reviews

\* Reviews rated 1 and 5 stored, and a review of an existing booking by a
\* signed-in customer that fails on the constraint alone: rating 6.
C16_Witness ==
  /\ \E r \in DOMAIN reviews : reviews[r].rating = 1
  /\ \E r \in DOMAIN reviews : reviews[r].rating = 5
  /\ \E r \in DOMAIN reviews :
       /\ InsertReviewResult(WithoutRows(reviews, {r}), reviews[r].customer_id,
                              [reviews[r] EXCEPT !.rating = 6]).outcome = "check_violation"
       /\ InsertReviewResult(WithoutRows(reviews, {r}), reviews[r].customer_id,
                              [reviews[r] EXCEPT !.rating = 0]).outcome = "check_violation"

\* C17: no booking has more than one review.
C17_OneReviewPerBooking ==
  \A b \in BookingIds :
    Cardinality({r \in DOMAIN reviews : reviews[r].booking_id = b}) <= 1

\* C18: a step that stores a new review stores it for a booking that is
\* completed at that step.
C18_ReviewOnlyWhenCompleted ==
  [][\A r \in DOMAIN reviews' \ DOMAIN reviews :
       /\ reviews'[r].booking_id \in DOMAIN bookings
       /\ bookings[reviews'[r].booking_id].status = "completed"]_vars

\* Rows of bookings and reviews a request may carry, with a customer_id
\* that is a user or NULL.
AnyBookingRows ==
  {[row EXCEPT !.customer_id = c] :
     row \in BookingInputs({"pending"}, {OilChangePrice}), c \in Users \cup {NullText}}
AnyReviewRows ==
  {[row EXCEPT !.customer_id = c] :
     row \in ReviewInputs({5}), c \in Users \cup {NullText}}

\* C15: a request without a session reads no row of the five tables, and
\* none of its INSERTs or UPDATEs is applied: each is refused or matches no
\* row, and the tables stay as they are.
C15_AnonDenied ==
  /\ SelectProfilesResult(Anon) = {}
  /\ SelectMechanicsResult(Anon) = {}
  /\ \A s \in ServiceIds : SelectServiceResult(Anon, s) = NULL
  /\ SelectBookingsResult(bookings, Anon) = {}
  /\ SelectReviewsResult(reviews, Anon) = {}
  /\ \A id \in Users \cup {NullText} :
       /\ InsertProfileResult(Anon, id) = "rls_violation"
       /\ UpdateProfileResult(Anon, id) = "no_rows"
       /\ InsertMechanicResult(Anon, id) = "rls_violation"
       /\ \A m \in MechanicIds : UpdateMechanicResult(Anon, m, id) = "no_rows"
  /\ InsertServiceResult(Anon) = "rls_violation"
  /\ \A s \in ServiceIds : UpdateServiceResult(Anon, s) = "no_rows"
  /\ \A row \in AnyBookingRows :
       /\ InsertBookingResult(bookings, Anon, row) =
            [outcome |-> "rls_violation", table |-> bookings, rows |-> {}]
       /\ \A b \in BookingIds :
            UpdateBookingResult(bookings, Anon, b, row) =
              [outcome |-> "no_rows", table |-> bookings, rows |-> {}]
  /\ \A row \in AnyReviewRows :
       InsertReviewResult(reviews, Anon, row) =
         [outcome |-> "rls_violation", table |-> reviews]

\* Rows in all five tables, each read by a signed-in user who could also
\* write a review, while the request without a session is refused.
C15_Witness ==
  \E u \in Users :
    /\ SelectProfilesResult(u) = {u}
    /\ SelectMechanicsResult(u) # {}
    /\ \A s \in ServiceIds : SelectServiceResult(u, s) = services[s]
    /\ SelectBookingsResult(bookings, u) # {}
    /\ SelectReviewsResult(reviews, u) # {}
    /\ UpdateProfileResult(u, u) = "ok"
    /\ FreeReviewIds(reviews) # {}
    /\ \E r \in DOMAIN reviews :
         /\ InsertReviewResult(reviews, u, [reviews[r] EXCEPT !.customer_id = u]).outcome = "ok"
         /\ InsertReviewResult(reviews, Anon, [reviews[r] EXCEPT !.customer_id = u]).outcome
              = "rls_violation"

\* C19: an UPDATE of a booking that has a mechanic is applied for the owner
\* of that mechanics row alone; the customer's UPDATE is applied only
\* while mechanic_id is null.
C19_CustomerUpdatesBeforeAssignmentOnly ==
  \A b \in DOMAIN bookings : \A p \in Users : \A new \in PolicyInputs :
    (bookings[b].mechanic_id # NULL
       /\ UpdateBookingResult(bookings, p, b, new).outcome = "ok")
      => mechanics[bookings[b].mechanic_id] = p

\* A required field of the booking form is missing: one of the four texts
\* or the service reference.
RequiredFieldMissing(scr) ==
  \/ scr.vehicleMake = ""
  \/ scr.vehicleModel = ""
  \/ scr.vehicleYear = ""
  \/ scr.locationAddress = ""
  \/ scr.serviceId = NULL

\* A press of Confirm Booking: the form is shown and idle, and the step
\* changes the error, or starts the insert, and nothing the user typed.
ConfirmPressed ==
  /\ createScreen # NoScreen
  /\ ~createScreen.loading
  /\ ~createScreen.submitting
  /\ createScreen' # createScreen
  /\ createScreen' = [createScreen EXCEPT !.error = createScreen'.error,
                                           !.submitting = createScreen'.submitting,
                                           !.request = createScreen'.request,
                                           !.inflight = createScreen'.inflight]

\* C20: a press of Confirm Booking with a required field missing reports
\* the validation error, sends no insert and leaves bookings as it was;
\* with the required fields present it sends the insert, a mechanic
\* selected or not.
C20_ValidationOfRequiredFields ==
  [][ConfirmPressed =>
       IF RequiredFieldMissing(createScreen)
         THEN /\ createScreen'.error = FillAllFields
              /\ ~createScreen'.submitting
              /\ bookings' = bookings
         ELSE createScreen'.submitting]_vars

\* C21: an INSERT of a mechanics row is applied only with user_id the
\* principal, an UPDATE only when user_id is the principal in the stored row
\* and in the new one, and no step changes the user_id of a stored row.
C21_MechanicBelongsToItsCreator ==
  /\ [](\A p \in Users : \A u \in Users :
          /\ InsertMechanicResult(p, u) = "ok" => u = p
          /\ \A m \in DOMAIN mechanics :
               UpdateMechanicResult(p, m, u) = "ok" => (mechanics[m] = p /\ u = p))
  /\ [][\A m \in DOMAIN mechanics \cap DOMAIN mechanics' :
          mechanics'[m] = mechanics[m]]_vars

\* A mechanics row of one user with a booking assigned, which another user
\* can neither take over nor be handed, and cannot duplicate under the
\* owner's name, while the owner's own UPDATE is applied.
C21_Witness ==
  \E m \in DOMAIN mechanics : \E p \in Users :
    /\ mechanics[m] # p
    /\ \E b \in DOMAIN bookings : bookings[b].mechanic_id = m
    /\ UpdateMechanicResult(p, m, p) = "no_rows"
    /\ UpdateMechanicResult(mechanics[m], m, p) = "rls_violation"
    /\ UpdateMechanicResult(mechanics[m], m, mechanics[m]) = "ok"
    /\ InsertMechanicResult(p, mechanics[m]) = "rls_violation"

\* C22: an INSERT of a review by p is applied only for a booking of
\* customer p and with the mechanic_id of that booking.
C22_ReviewOfOwnBookingOnly ==
  FreeReviewIds(reviews) # {} =>
    \A p \in Users : \A row \in ReviewInputs({5}) :
      InsertReviewResult(reviews, p, row).outcome = "ok" =>
        /\ bookings[row.booking_id].customer_id = p
        /\ bookings[row.booking_id].mechanic_id = row.mechanic_id

\* C23: at most one insert of the booking form is in flight, and that is
\* while submitting is true; a step that stores a booking stores one and
\* takes the screen off the stack; a step that answers the insert with an
\* error stores nothing and leaves the screen open, idle, with the error
\* shown.
C23_OneSubmissionInFlight ==
  /\ [](/\ createScreen.inflight <= 1
        /\ createScreen.submitting <=> createScreen.inflight = 1)
  /\ [][/\ createScreen'.inflight > createScreen.inflight => ~createScreen.submitting
        /\ bookings' # bookings =>
             /\ Cardinality(DOMAIN bookings' \ DOMAIN bookings) = 1
             /\ DOMAIN bookings \subseteq DOMAIN bookings'
             /\ createScreen.submitting
             /\ createScreen' = NoScreen
        /\ (createScreen.submitting /\ ~createScreen'.submitting /\ bookings' = bookings) =>
             /\ createScreen' = [createScreen EXCEPT !.submitting = FALSE,
                                                     !.error = createScreen'.error,
                                                     !.inflight = 0]
             /\ createScreen'.error \notin {"", FillAllFields}
             /\ createScreen' # NoScreen]_vars

\* The form open and idle again after its insert was refused, the error of
\* the database shown and no booking stored.
C23_Witness ==
  /\ createScreen # NoScreen
  /\ ~createScreen.submitting
  /\ createScreen.inflight = 0
  /\ createScreen.error = "not_null_violation"
  /\ ~FormIncomplete(createScreen)
  /\ DOMAIN bookings = {}

====
